---------------------------- MODULE Spec2Model ----------------------------
(***************************************************************************)
(* A model of src/server.py: the SQLite memory store with its two tools,   *)
(* save_memory and fetch_memories, the keyword search, the vector search   *)
(* with cosine ranking, and the embedding provider as an external          *)
(* collaborator whose outcome is drawn per call.                           *)
(*                                                                         *)
(* Text is a sequence of one-character strings.  An optional value is a    *)
(* sequence of length 0 (None / SQL NULL) or 1 (the value).  A JSON text   *)
(* is a sequence of tokens.  A similarity score is kept exactly, as the    *)
(* pair (dot, |a|^2 * |b|^2), instead of as a rounded float.               *)
(***************************************************************************)
EXTENDS Integers, Sequences, FiniteSets

(***************************************************************************)
(* Bounds of the model and the program's constants.                        *)
(***************************************************************************)
\* The largest id the small store hands out (the number of INSERTs tried).
MaxId == 2

\* Rows a store inherited from earlier runs holds beyond MAX_LIMIT.
PreloadExtra == 1

\* INSERTs tried on top of an inherited store.
MaxBigSaves == 1

\* server.py:278-279, the cap on limit.
MAX_LIMIT == 50

None == << >>

Some(x) == << x >>

\* EMBEDDING_MODEL is read once at import: the model the server first ran
\* with, and the one a later start of it is given.
FirstModel == "m1"

LaterModel == "m2"

\* What _embed_text can hand back: vectors of the provider.
Vectors == { <<1, 0>>, <<1, 1>> }

Unavailable == [kind |-> "unavailable", vec |-> << >>]

ProviderError == [kind |-> "error", vec |-> << >>]

NotCalled == [kind |-> "notcalled", vec |-> << >>]

Vector(v) == [kind |-> "vector", vec |-> v]

\* _embed_text: None without an API key, an exception from the HTTP client
\* or the SDK, or the provider's vector.
EmbedOutcomes == {Unavailable, ProviderError} \cup { Vector(v) : v \in Vectors }

\* The arguments of save_memory the model draws from.
SaveArgs ==
  { [content |-> <<"_", "B">>, title |-> Some(<<"x">>),
     tags |-> Some(<<"errand">>), source |-> Some("chat")],
    [content |-> << >>, title |-> Some(<<"b">>),
     tags |-> None, source |-> None] }

NoArgs == [content |-> << >>, title |-> None, tags |-> None, source |-> None]

Queries == { <<"b">>, <<"_", "b">> }

Limits == {0, 1, MAX_LIMIT + 1}

\* The order in which SQLite hands back the rows of a SELECT without
\* ORDER BY is not specified: rowid order or its reverse.
ScanOrders == {"asc", "desc"}

(***************************************************************************)
(* Sequences.                                                              *)
(***************************************************************************)
Min(a, b) == IF a <= b THEN a ELSE b

Max(a, b) == IF a >= b THEN a ELSE b

Reverse(s) == [i \in 1..Len(s) |-> s[Len(s) + 1 - i]]

\* Python's s[:n]: the first n, or all but the last -n for a negative n.
Slice(s, n) ==
  IF n >= 0 THEN SubSeq(s, 1, Min(n, Len(s)))
  ELSE SubSeq(s, 1, Max(Len(s) + n, 0))

\* SQL's LIMIT n: a negative n is no limit.
SqlLimit(s, n) == IF n < 0 THEN s ELSE SubSeq(s, 1, Min(n, Len(s)))

Scan(s, order) == IF order = "asc" THEN s ELSE Reverse(s)

Range(s) == { s[i] : i \in 1..Len(s) }

(***************************************************************************)
(* json.dumps and json.loads, on a list of strings (tags) and on a list of *)
(* numbers (an embedding).                                                 *)
(***************************************************************************)
LB == [t |-> "[", s |-> "", n |-> 0]

RB == [t |-> "]", s |-> "", n |-> 0]

Comma == [t |-> ",", s |-> "", n |-> 0]

StrTok(x) == [t |-> "str", s |-> x, n |-> 0]

NumTok(x) == [t |-> "num", s |-> "", n |-> x]

RECURSIVE JoinTokens(_)
JoinTokens(toks) ==
  IF toks = << >> THEN << >>
  ELSE IF Len(toks) = 1 THEN << toks[1] >>
  ELSE << toks[1], Comma >> \o JoinTokens(Tail(toks))

JsonDumpsStrings(list) ==
  << LB >> \o JoinTokens([i \in 1..Len(list) |-> StrTok(list[i])]) \o << RB >>

JsonDumpsNumbers(list) ==
  << LB >> \o JoinTokens([i \in 1..Len(list) |-> NumTok(list[i])]) \o << RB >>

\* The elements of a token list "e , e , e", or failure.
RECURSIVE ParseElements(_, _)
ParseElements(toks, kind) ==
  IF toks = << >> THEN [ok |-> FALSE, val |-> << >>]
  ELSE IF toks[1].t # kind THEN [ok |-> FALSE, val |-> << >>]
  ELSE LET x == IF kind = "str" THEN << toks[1].s >> ELSE << toks[1].n >>
       IN IF Len(toks) = 1 THEN [ok |-> TRUE, val |-> x]
          ELSE IF toks[2] # Comma THEN [ok |-> FALSE, val |-> << >>]
          ELSE LET rest == ParseElements(SubSeq(toks, 3, Len(toks)), kind)
               IN [ok |-> rest.ok, val |-> IF rest.ok THEN x \o rest.val ELSE << >>]

\* json.loads of a list: ok is FALSE where json.loads raises.
JsonLoads(text, kind) ==
  IF Len(text) < 2 \/ text[1] # LB \/ text[Len(text)] # RB
  THEN [ok |-> FALSE, val |-> << >>]
  ELSE IF Len(text) = 2 THEN [ok |-> TRUE, val |-> << >>]
  ELSE ParseElements(SubSeq(text, 2, Len(text) - 1), kind)

(***************************************************************************)
(* SQLite's LIKE: % matches any run, _ any one character, ASCII letters    *)
(* match without regard to case.                                           *)
(***************************************************************************)
Lower(c) == IF c = "A" THEN "a" ELSE IF c = "B" THEN "b" ELSE IF c = "X" THEN "x" ELSE c

RECURSIVE Like(_, _)
Like(text, pattern) ==
  IF pattern = << >> THEN text = << >>
  ELSE IF Head(pattern) = "%"
    THEN Like(text, Tail(pattern)) \/ (text # << >> /\ Like(Tail(text), pattern))
  ELSE /\ text # << >>
       /\ (Head(pattern) = "_" \/ Lower(Head(pattern)) = Lower(Head(text)))
       /\ Like(Tail(text), Tail(pattern))

IfNull(opt, default) == IF opt = None THEN default ELSE opt[1]

(***************************************************************************)
(* _cosine_similarity, exactly: the score dot / sqrt(den), den > 0.        *)
(***************************************************************************)
RECURSIVE Dot(_, _)
Dot(a, b) == IF a = << >> THEN 0 ELSE a[1] * b[1] + Dot(Tail(a), Tail(b))

ZeroScore == [dot |-> 0, den |-> 1]

CosineSimilarity(a, b) ==
  IF a = << >> \/ b = << >> \/ Len(a) # Len(b) THEN ZeroScore
  ELSE IF Dot(a, a) = 0 \/ Dot(b, b) = 0 THEN ZeroScore
  ELSE [dot |-> Dot(a, b), den |-> Dot(a, a) * Dot(b, b)]

Sign(x) == IF x > 0 THEN 1 ELSE IF x < 0 THEN -1 ELSE 0

\* s1 > s2 as numbers: x -> sign(x) * x^2 is increasing.
ScoreGreater(s1, s2) ==
  Sign(s1.dot) * s1.dot * s1.dot * s2.den > Sign(s2.dot) * s2.dot * s2.dot * s1.den


(***************************************************************************)
(* _search_memories_keyword.                                               *)
(***************************************************************************)
\* Recent with the tie on created_at broken by ascending id.
RecentIdAscending(a, b) ==
  \/ a.created_at > b.created_at
  \/ (a.created_at = b.created_at /\ a.id < b.id)

\* ORDER BY datetime(created_at) DESC, id DESC
Recent(a, b) ==
  \/ a.created_at > b.created_at
  \/ (a.created_at = b.created_at /\ a.id > b.id)

\* The three orders the code sorts by: ORDER BY of the keyword query,
\* key=score with reverse=True, and key=order.get(id, len(order)).
Before(kind, a, b) ==
  IF kind = "recent" THEN Recent(a, b)
  ELSE IF kind = "score" THEN ScoreGreater(a.score, b.score)
  ELSE a.key < b.key

\* list.sort and ORDER BY: a stable sort (of two elements neither of which
\* sorts before the other, the one that came first stays first).
RECURSIVE Merge(_, _, _)
Merge(kind, l, r) ==
  IF l = << >> THEN r
  ELSE IF r = << >> THEN l
  ELSE IF Before(kind, r[1], l[1]) THEN << r[1] >> \o Merge(kind, l, Tail(r))
  ELSE << l[1] >> \o Merge(kind, Tail(l), r)

RECURSIVE StableSort(_, _)
StableSort(kind, s) ==
  IF Len(s) <= 1 THEN s
  ELSE LET h == Len(s) \div 2
       IN Merge(kind, StableSort(kind, SubSeq(s, 1, h)),
                      StableSort(kind, SubSeq(s, h + 1, Len(s))))

\* WHERE content LIKE ? OR IFNULL(title, '') LIKE ?, with "%query%"
KeywordMatch(row, query) ==
  LET pattern == <<"%">> \o query \o <<"%">>
  IN Like(row.content, pattern) \/ Like(IfNull(row.title, << >>), pattern)

SearchMemoriesKeyword(mem, query, limit) ==
  LET Hit(r) == KeywordMatch(r, query)
  IN SqlLimit(StableSort("recent", SelectSeq(mem, Hit)), limit)

(***************************************************************************)
(* _search_memories_vector.                                                *)
(***************************************************************************)
\* EmbeddingsOfModel without its WHERE model = ?.
EmbeddingsOfAnyModel(emb, model, scan) == Scan(emb, scan)

\* SELECT memory_id, embedding FROM memory_embeddings WHERE model = ?
EmbeddingsOfModel(emb, model, scan) ==
  LET Mine(e) == e.model = model
  IN Scan(SelectSeq(emb, Mine), scan)

\* Lines 165-172: a row whose embedding does not decode is skipped.
Scores(rows, query_embedding) ==
  LET decoded == [i \in 1..Len(rows) |-> JsonLoads(rows[i].embedding, "num")]
      all == [i \in 1..Len(rows) |->
                [memory_id |-> rows[i].memory_id, ok |-> decoded[i].ok,
                 score |-> IF decoded[i].ok
                           THEN CosineSimilarity(query_embedding, decoded[i].val)
                           ELSE ZeroScore]]
      Good(x) == x.ok
      good == SelectSeq(all, Good)
  IN [i \in 1..Len(good) |-> [memory_id |-> good[i].memory_id, score |-> good[i].score]]

\* Lines 175-176: scores.sort(key=score, reverse=True), then the first limit.
TopIds(scores, limit) ==
  LET sorted == Slice(StableSort("score", scores), limit)
  IN [i \in 1..Len(sorted) |-> sorted[i].memory_id]

\* PreserveRanking without the sort: the rows as the store handed them back.
PreserveRankingSkipped(memory_rows, top_ids) == memory_rows

\* Lines 193-194: order = {id: idx}; rows.sort(key=order.get(id, len(order)))
PreserveRanking(memory_rows, top_ids) ==
  LET order == [id \in Range(top_ids) |-> (CHOOSE i \in 1..Len(top_ids) : top_ids[i] = id) - 1]
      keyed == [i \in 1..Len(memory_rows) |->
                  [row |-> memory_rows[i],
                   key |-> IF memory_rows[i].id \in DOMAIN order
                           THEN order[memory_rows[i].id] ELSE Len(top_ids)]]
      sorted == StableSort("rank", keyed)
  IN [i \in 1..Len(sorted) |-> sorted[i].row]

\* SELECT ... FROM memories WHERE id IN (top_ids)
MemoriesByIds(mem, top_ids, fetch) ==
  LET ids == Range(top_ids)
      Wanted(r) == r.id \in ids
  IN Scan(SelectSeq(mem, Wanted), fetch)

\* Lines 150-195, with the query's embedding in hand.
RankedSearch(mem, emb, model, query_embedding, limit, scan, fetch) ==
  LET rows == EmbeddingsOfModel(emb, model, scan)
      top_ids == TopIds(Scores(rows, query_embedding), limit)
  IN IF rows = << >> THEN << >>
     ELSE IF top_ids = << >> THEN << >>
     ELSE PreserveRanking(MemoriesByIds(mem, top_ids, fetch), top_ids)

\* SearchMemoriesVector that ranks against nothing, instead of falling back,
\* when the provider is unconfigured.
SearchMemoriesVectorNoFallback(mem, emb, model, outcome, query, limit, scan, fetch) ==
  IF outcome.kind = "error" THEN [raised |-> TRUE, rows |-> << >>]
  ELSE IF outcome.kind = "unavailable" THEN [raised |-> FALSE, rows |-> << >>]
  ELSE [raised |-> FALSE,
        rows |-> RankedSearch(mem, emb, model, outcome.vec, limit, scan, fetch)]

\* Lines 145-148: what the search does with _embed_text's outcome.  An
\* exception of the provider is not caught here.
SearchMemoriesVector(mem, emb, model, outcome, query, limit, scan, fetch) ==
  IF outcome.kind = "error" THEN [raised |-> TRUE, rows |-> << >>]
  ELSE IF outcome.kind = "unavailable"
    THEN [raised |-> FALSE, rows |-> SearchMemoriesKeyword(mem, query, limit)]
  ELSE [raised |-> FALSE,
        rows |-> RankedSearch(mem, emb, model, outcome.vec, limit, scan, fetch)]

(***************************************************************************)
(* fetch_memories.                                                         *)
(***************************************************************************)
\* Lines 292-296: json.loads(raw_tags) if raw_tags else [], [] on an error.
ParseTags(raw_tags) ==
  IF raw_tags = << >> THEN << >>
  ELSE IF JsonLoads(raw_tags, "str").ok THEN JsonLoads(raw_tags, "str").val
  ELSE << >>

\* Lines 298-307.
RowToDict(row) ==
  [id |-> row.id, created_at |-> row.created_at, title |-> row.title,
   content |-> row.content, tags |-> ParseTags(row.tags), source |-> row.source]

\* ClampLimit without the cap.
ClampLimitMissing(limit) == limit

\* Lines 276-279.
ClampLimit(limit) == IF limit > MAX_LIMIT THEN MAX_LIMIT ELSE limit

\* Line 276: limit <= 0 raises ValueError.
LimitRejected(limit) == limit <= 0

\* The whole handler: its status, its result, and the handles it opened and
\* closed.  fault names the statement of the store that fails, if any.
FetchMemories(db, model, query, limit, vector, outcome, scan, fetch, fault) ==
  IF LimitRejected(limit)
  THEN [status |-> "ValueError", rows |-> << >>, opened |-> 0, closed |-> 0]
  ELSE IF fault = "schema"
  THEN [status |-> "StorageError", rows |-> << >>, opened |-> 1, closed |-> 0]
  ELSE
    LET lim == ClampLimit(limit)
        found == IF vector
                 THEN SearchMemoriesVector(db.memories, db.embeddings, model,
                                           outcome, query, lim, scan, fetch)
                 ELSE [raised |-> FALSE,
                       rows |-> SearchMemoriesKeyword(db.memories, query, lim)]
    IN IF found.raised
       THEN [status |-> "EmbeddingError", rows |-> << >>, opened |-> 1, closed |-> 1]
       ELSE IF fault = "query"
       THEN [status |-> "StorageError", rows |-> << >>, opened |-> 1, closed |-> 1]
       ELSE [status |-> "ok",
             rows |-> [i \in 1..Len(found.rows) |-> RowToDict(found.rows[i])],
             opened |-> 1, closed |-> 1]

(***************************************************************************)
(* save_memory.                                                            *)
(***************************************************************************)
\* tags or []
TagsOrEmpty(tags) == IF tags = None \/ tags[1] = << >> THEN << >> ELSE tags[1]

\* INSERT INTO memories (content, title, tags, source); created_at defaults
\* to datetime('now'), id to the next AUTOINCREMENT value.
InsertMemory(db, now, a) ==
  [db EXCEPT
     !.memories = Append(@, [id |-> db.nextId, created_at |-> now,
                             title |-> a.title, content |-> a.content,
                             tags |-> JsonDumpsStrings(TagsOrEmpty(a.tags)),
                             source |-> a.source]),
     !.nextId = @ + 1]

\* INSERT OR REPLACE INTO memory_embeddings: memory_id is the primary key.
UpsertEmbedding(db, memory_id, model, vec) ==
  LET Other(e) == e.memory_id # memory_id
  IN [db EXCEPT
        !.embeddings = Append(SelectSeq(@, Other),
                              [memory_id |-> memory_id, model |-> model,
                               embedding |-> JsonDumpsNumbers(vec)])]

\* Lines 233-245: the embedding step, every exception of it swallowed.
EmbeddingStep(db, memory_id, model, generate, outcome, fault) ==
  IF generate /\ outcome.kind = "vector" /\ fault # "embins"
  THEN UpsertEmbedding(db, memory_id, model, outcome.vec)
  ELSE db

\* SaveMemory whose embedding step lets the provider's exception out: the
\* finally closes the handle and the inserted row is rolled back.
SaveMemoryEmbeddingRaises(db, model, now, a, generate, outcome, fault) ==
  IF fault = "schema"
  THEN [status |-> "StorageError", db |-> db, id |-> 0, opened |-> 1, closed |-> 0]
  ELSE IF fault = "insert"
  THEN [status |-> "StorageError", db |-> db, id |-> 0, opened |-> 1, closed |-> 1]
  ELSE IF generate /\ outcome.kind = "error"
  THEN [status |-> "EmbeddingError", db |-> db, id |-> 0, opened |-> 1, closed |-> 1]
  ELSE
    LET memory_id == db.nextId
        db1 == InsertMemory(db, now, a)
        db2 == EmbeddingStep(db1, memory_id, model, generate, outcome, fault)
    IN IF fault = "commit"
       THEN [status |-> "StorageError", db |-> db, id |-> 0, opened |-> 1, closed |-> 1]
       ELSE [status |-> "ok", db |-> db2, id |-> memory_id, opened |-> 1, closed |-> 1]

\* The whole handler.  A statement of the store that fails raises; the
\* finally closes the handle, and what was not committed is rolled back.
SaveMemory(db, model, now, a, generate, outcome, fault) ==
  IF fault = "schema"
  THEN [status |-> "StorageError", db |-> db, id |-> 0, opened |-> 1, closed |-> 0]
  ELSE IF fault = "insert"
  THEN [status |-> "StorageError", db |-> db, id |-> 0, opened |-> 1, closed |-> 1]
  ELSE
    LET memory_id == db.nextId
        db1 == InsertMemory(db, now, a)
        db2 == EmbeddingStep(db1, memory_id, model, generate, outcome, fault)
    IN IF fault = "commit"
       THEN [status |-> "StorageError", db |-> db, id |-> 0, opened |-> 1, closed |-> 1]
       ELSE [status |-> "ok", db |-> db2, id |-> memory_id, opened |-> 1, closed |-> 1]

(***************************************************************************)
(* Deleting a memories row through a handle of _get_connection, which      *)
(* never issues PRAGMA foreign_keys = ON: SQLite then does not enforce     *)
(* the FOREIGN KEY ... ON DELETE CASCADE of memory_embeddings.             *)
(***************************************************************************)
ForeignKeysEnforced == FALSE

DeleteMemory(db, id) ==
  LET KeepM(r) == r.id # id
      KeepE(e) == e.memory_id # id
  IN [db EXCEPT
        !.memories = SelectSeq(@, KeepM),
        !.embeddings = IF ForeignKeysEnforced THEN SelectSeq(@, KeepE) ELSE @]

(***************************************************************************)
(* The state: the two tables of the database file, the AUTOINCREMENT       *)
(* counter of memories, the store's clock (datetime('now') of the latest   *)
(* committed row), the process's EMBEDDING_MODEL, and the latest tool      *)
(* invocation with what it returned or raised.                             *)
(***************************************************************************)
VARIABLES memories, embeddings, nextId, clock, embeddingModel, last

vars == <<memories, embeddings, nextId, clock, embeddingModel, last>>

Db == [memories |-> memories, embeddings |-> embeddings, nextId |-> nextId]

NoCall ==
  [op |-> "none", status |-> "none", a |-> NoArgs, generate |-> FALSE,
   query |-> << >>, limit |-> 0, vector |-> FALSE, outcome |-> NotCalled,
   scan |-> "asc", fault |-> "none", id |-> 0, rows |-> << >>,
   opened |-> 0, closed |-> 0]

PreloadArgs == CHOOSE a \in SaveArgs : a.content # << >>

\* The calls of save_memory: every argument with a healthy store, and one
\* call for each statement of the store that can fail.
SaveCalls ==
  { [a |-> a, generate |-> g, fault |-> "none"] : a \in SaveArgs, g \in BOOLEAN }
  \cup
  { [a |-> PreloadArgs, generate |-> TRUE, fault |-> f] :
      f \in {"schema", "insert", "embins", "commit"} }

\* The calls of fetch_memories.
FetchCalls ==
  { [query |-> q, limit |-> l, vector |-> v, fault |-> "none"] :
      q \in Queries, l \in Limits, v \in BOOLEAN }
  \cup
  { [query |-> <<"b">>, limit |-> 1, vector |-> v, fault |-> f] :
      v \in BOOLEAN, f \in {"schema", "query"} }

\* The calls made on the inherited store.
BigSaveCalls == { [a |-> PreloadArgs, generate |-> TRUE, fault |-> "none"] }

BigFetchCalls ==
  { [query |-> <<"b">>, limit |-> l, vector |-> v, fault |-> "none"] :
      l \in {0, MAX_LIMIT, MAX_LIMIT + 1, 20 * MAX_LIMIT}, v \in BOOLEAN }

\* A database file of an earlier run: more rows than MAX_LIMIT, each saved
\* with an embedding under "m1".
PreloadRows == MAX_LIMIT + PreloadExtra

\* What n calls save_memory(PreloadArgs) leave in an empty file when the
\* provider answers each with a vector, all within one second.
Preloaded(n) ==
  [memories |->
     [i \in 1..n |->
        [id |-> i, created_at |-> 0, title |-> PreloadArgs.title,
         content |-> PreloadArgs.content,
         tags |-> JsonDumpsStrings(TagsOrEmpty(PreloadArgs.tags)),
         source |-> PreloadArgs.source]],
   embeddings |->
     [i \in 1..n |->
        [memory_id |-> i, model |-> FirstModel,
         embedding |-> JsonDumpsNumbers(IF i % 2 = 0 THEN <<1, 0>> ELSE <<1, 1>>)]],
   nextId |-> n + 1]

InitWith(db) ==
  /\ memories = db.memories
  /\ embeddings = db.embeddings
  /\ nextId = db.nextId
  /\ clock = 0
  /\ embeddingModel = FirstModel
  /\ last = NoCall

Init == InitWith(Preloaded(0))

InitBig == InitWith(Preloaded(PreloadRows))

\* save_memory, lines 202-257.
SaveMemoryCall(cap, calls) ==
  /\ last = NoCall
  /\ nextId <= cap
  /\ \E c \in calls, now \in {clock, clock + 1} :
       \E outcome \in IF c.generate /\ c.fault \notin {"schema", "insert"}
                      THEN EmbedOutcomes ELSE {NotCalled} :
         LET r == SaveMemory(Db, embeddingModel, now, c.a, c.generate, outcome, c.fault)
         IN /\ memories' = r.db.memories
            /\ embeddings' = r.db.embeddings
            /\ nextId' = r.db.nextId
            /\ clock' = IF r.status = "ok" THEN now ELSE clock
            /\ last' = [NoCall EXCEPT !.op = "save", !.status = r.status,
                          !.a = c.a, !.generate = c.generate, !.outcome = outcome,
                          !.fault = c.fault, !.id = r.id,
                          !.opened = r.opened, !.closed = r.closed]
            /\ UNCHANGED embeddingModel

\* fetch_memories, lines 261-309.
FetchMemoriesCall(calls) ==
  /\ last = NoCall
  /\ \E c \in calls :
    LET called == c.vector /\ ~LimitRejected(c.limit) /\ c.fault # "schema"
    IN \E outcome \in IF called THEN EmbedOutcomes ELSE {NotCalled} :
         LET ranks == called /\ outcome.kind = "vector" /\ c.fault = "none"
         IN \E scan \in IF ranks THEN ScanOrders ELSE {"asc"},
               fetch \in IF ranks THEN ScanOrders ELSE {"asc"} :
              LET r == FetchMemories(Db, embeddingModel, c.query, c.limit, c.vector,
                                     outcome, scan, fetch, c.fault)
              IN /\ last' = [NoCall EXCEPT !.op = "fetch", !.status = r.status,
                               !.query = c.query, !.limit = c.limit,
                               !.vector = c.vector, !.outcome = outcome,
                               !.scan = scan, !.fault = c.fault, !.rows = r.rows,
                               !.opened = r.opened, !.closed = r.closed]
                 /\ UNCHANGED <<memories, embeddings, nextId, clock, embeddingModel>>

\* An administrator deletes a memories row through _get_connection's handle.
AdminDelete(ids) ==
  \E id \in ids :
    /\ last = NoCall
    /\ \E i \in 1..Len(memories) : memories[i].id = id
    /\ memories' = DeleteMemory(Db, id).memories
    /\ embeddings' = DeleteMemory(Db, id).embeddings
    /\ last' = [NoCall EXCEPT !.op = "delete", !.status = "ok", !.id = id]
    /\ UNCHANGED <<nextId, clock, embeddingModel>>

\* The server is started again with another EMBEDDING_MODEL, on the same file.
Restart ==
  /\ last = NoCall
  /\ embeddingModel = FirstModel
  /\ embeddingModel' = LaterModel
  /\ last' = [NoCall EXCEPT !.op = "restart"]
  /\ UNCHANGED <<memories, embeddings, nextId, clock>>

\* The invocation's result or exception has gone back to the caller, who may
\* call again.
Return ==
  /\ last # NoCall
  /\ last' = NoCall
  /\ UNCHANGED <<memories, embeddings, nextId, clock, embeddingModel>>

Next ==
  \/ SaveMemoryCall(MaxId, SaveCalls)
  \/ FetchMemoriesCall(FetchCalls)
  \/ AdminDelete({1})
  \/ Restart
  \/ Return

Spec == Init /\ [][Next]_vars

NextBig ==
  \/ SaveMemoryCall(PreloadRows + MaxBigSaves, BigSaveCalls)
  \/ FetchMemoriesCall(BigFetchCalls)
  \/ AdminDelete({PreloadRows + 1})
  \/ Restart
  \/ Return

SpecBig == InitBig /\ [][NextBig]_vars

(***************************************************************************)
(* What the claims speak of.                                               *)
(***************************************************************************)
IsSave == last.op = "save"

IsFetch == last.op = "fetch"

\* fetch_memories in keyword mode on the store as it is now.
KeywordFetch(query, limit) ==
  FetchMemories(Db, embeddingModel, query, limit, FALSE, NotCalled, "asc", "asc", "none")

MemoryIds == { memories[i].id : i \in 1..Len(memories) }

Substrings(text) ==
  { SubSeq(text, i, j) : i \in 1..(Len(text) + 1), j \in 0..Len(text) }

\* The embedding rows of the active model, in the order the search met them.
Candidates == EmbeddingsOfModel(embeddings, embeddingModel, last.scan)

CandidateScore(p) ==
  CosineSimilarity(last.outcome.vec, JsonLoads(Candidates[p].embedding, "num").val)

\* Candidate p ranks before candidate q: a greater similarity, or the same
\* similarity and met earlier.
RanksBefore(p, q) ==
  \/ ScoreGreater(CandidateScore(p), CandidateScore(q))
  \/ /\ ~ScoreGreater(CandidateScore(q), CandidateScore(p))
     /\ p < q

RankOf(p) == Cardinality({ q \in 1..Len(Candidates) : RanksBefore(q, p) })

PositionOf(id) == CHOOSE p \in 1..Len(Candidates) : Candidates[p].memory_id = id

EffectiveLimit == Min(last.limit, MAX_LIMIT)

(***************************************************************************)
(* C1.  A save of non-empty content on a healthy store succeeds whatever   *)
(* the embedding provider does (a vector, unavailable, an exception): it   *)
(* returns the id the store assigned, the memory row is committed, and an  *)
(* embedding row for that id under the active model exists only when       *)
(* generate_embedding was true and the provider returned a vector.         *)
(***************************************************************************)
C1_SaveSurvivesEmbedding ==
  (IsSave /\ last.fault = "none" /\ last.a.content # << >>) =>
    /\ last.status = "ok"
    /\ last.id = nextId - 1
    /\ \E i \in 1..Len(memories) :
         /\ memories[i].id = last.id
         /\ memories[i].content = last.a.content
    /\ (\E j \in 1..Len(embeddings) :
          /\ embeddings[j].memory_id = last.id
          /\ embeddings[j].model = embeddingModel)
       => (last.generate /\ last.outcome.kind = "vector")

C1_Witness ==
  /\ IsSave /\ last.fault = "none" /\ last.a.content # << >>
  /\ last.generate /\ last.outcome.kind = "error"
  /\ last.status = "ok"
  /\ \E i \in 1..Len(memories) : memories[i].id = last.id
  /\ \A j \in 1..Len(embeddings) : embeddings[j].memory_id # last.id

(***************************************************************************)
(* C2.  save_memory with empty content fails with InvalidArgument and      *)
(* writes no row, so every stored memory has non-empty content.            *)
(***************************************************************************)
C2_EmptyContentRejected ==
  /\ (IsSave /\ last.a.content = << >>) => last.status = "ValueError"
  /\ \A i \in 1..Len(memories) : memories[i].content # << >>

(***************************************************************************)
(* C3.  When the provider fails with a transport error during a vector     *)
(* search, fetch_memories does not raise: it returns what the keyword      *)
(* search returns for the same query and limit.                            *)
(***************************************************************************)
C3_TransportErrorFallsBack ==
  (IsFetch /\ last.vector /\ last.outcome.kind = "error" /\ last.fault = "none") =>
    /\ last.status = "ok"
    /\ last.rows = KeywordFetch(last.query, last.limit).rows

(***************************************************************************)
(* C4.  With the provider unconfigured, a vector search returns exactly    *)
(* the ordered list the keyword search returns for the same query and      *)
(* limit, whatever embedding rows the store holds.                         *)
(***************************************************************************)
C4_UnavailableIsKeyword ==
  (IsFetch /\ last.vector /\ last.outcome = Unavailable /\ last.fault = "none") =>
    /\ last.status = KeywordFetch(last.query, last.limit).status
    /\ last.rows = KeywordFetch(last.query, last.limit).rows

C4_Witness ==
  /\ IsFetch /\ last.vector /\ last.outcome = Unavailable /\ last.fault = "none"
  /\ last.status = "ok"
  /\ last.rows # << >>
  /\ Len(last.rows) < Len(memories)
  /\ \E j \in 1..Len(embeddings) : embeddings[j].model = embeddingModel

(***************************************************************************)
(* C5.  A vector search with a query vector in hand and no embedding row   *)
(* of the active model returns the empty list, never keyword results:      *)
(* also when memories match the query and when embeddings of another       *)
(* model are stored.                                                       *)
(***************************************************************************)
C5_NoCandidatesIsEmpty ==
  ( /\ IsFetch /\ last.vector /\ last.outcome.kind = "vector" /\ last.fault = "none"
    /\ \A j \in 1..Len(embeddings) : embeddings[j].model # embeddingModel ) =>
    /\ last.status = "ok"
    /\ last.rows = << >>

C5_Witness ==
  /\ IsFetch /\ last.vector /\ last.outcome.kind = "vector" /\ last.fault = "none"
  /\ embeddings # << >>
  /\ \A j \in 1..Len(embeddings) :
       /\ embeddings[j].model # embeddingModel
       /\ embeddings[j].memory_id \in MemoryIds
  /\ KeywordFetch(last.query, last.limit).rows # << >>
  /\ last.rows = << >>

(***************************************************************************)
(* C6.  fetch_memories with limit <= 0 raises before a handle is opened;   *)
(* with a limit above 50 it returns what limit = 50 returns on the same    *)
(* store, query and mode; and it never returns more than min(limit, 50)    *)
(* memories, in keyword and in vector mode.                                *)
(***************************************************************************)
C6_LimitClamped ==
  /\ (IsFetch /\ last.limit <= 0) =>
       (last.status = "ValueError" /\ last.opened = 0 /\ last.rows = << >>)
  /\ (IsFetch /\ last.limit > MAX_LIMIT /\ last.fault = "none") =>
       LET at50 == FetchMemories(Db, embeddingModel, last.query, MAX_LIMIT,
                                 last.vector, last.outcome, last.scan, "asc", "none")
       IN last.status = at50.status /\ last.rows = at50.rows
  /\ (IsFetch /\ last.status = "ok") => Len(last.rows) <= EffectiveLimit

C6_Witness ==
  /\ IsFetch /\ last.limit > MAX_LIMIT /\ last.status = "ok"
  /\ last.vector /\ last.outcome.kind = "vector"
  /\ Len(Candidates) > MAX_LIMIT
  /\ Len(last.rows) = MAX_LIMIT

(***************************************************************************)
(* C7.  After save_memory of non-empty content, a keyword search for any   *)
(* substring of that content, with any limit >= 1, returns a list that     *)
(* holds the memory just saved: its id, content, title, tags and source.   *)
(***************************************************************************)
C7_SavedIsFound ==
  (IsSave /\ last.status = "ok" /\ last.a.content # << >>) =>
    \A q \in Substrings(last.a.content), limit \in {1, 2, MAX_LIMIT, MAX_LIMIT + 1} :
      LET got == KeywordFetch(q, limit)
      IN /\ got.status = "ok"
         /\ \E i \in 1..Len(got.rows) :
              /\ got.rows[i].id = last.id
              /\ got.rows[i].content = last.a.content
              /\ got.rows[i].title = last.a.title
              /\ got.rows[i].tags = TagsOrEmpty(last.a.tags)
              /\ got.rows[i].source = last.a.source

C7_Witness ==
  /\ IsSave /\ last.status = "ok" /\ last.a.content # << >>
  /\ last.a.tags # None
  /\ \E i \in 1..Len(memories) :
       /\ memories[i].id # last.id
       /\ memories[i].created_at = clock
       /\ memories[i].content = last.a.content
  /\ KeywordFetch(last.a.content, 1).rows[1].id = last.id

(***************************************************************************)
(* C8.  A vector search that ranks returns the memories in rank order:     *)
(* by descending cosine similarity to the query vector, candidates of      *)
(* equal similarity in the order they were met, cut to the first limit     *)
(* ids, whatever order the memory rows came back in; with limit = 1 that   *)
(* is the candidate of highest similarity.                                 *)
(***************************************************************************)
C8_RankOrder ==
  (IsFetch /\ last.vector /\ last.outcome.kind = "vector" /\ last.status = "ok") =>
    LET n == Len(last.rows)
        ids == [k \in 1..n |-> last.rows[k].id]
    IN /\ \A k \in 1..n :
            /\ ids[k] \in MemoryIds
            /\ \E p \in 1..Len(Candidates) : Candidates[p].memory_id = ids[k]
       /\ \A k \in 1..(n - 1) : RanksBefore(PositionOf(ids[k]), PositionOf(ids[k + 1]))
       /\ \A p \in 1..Len(Candidates) :
            (RankOf(p) < EffectiveLimit /\ Candidates[p].memory_id \in MemoryIds)
              <=> (\E k \in 1..n : ids[k] = Candidates[p].memory_id)

C8_Witness ==
  /\ IsFetch /\ last.vector /\ last.outcome.kind = "vector" /\ last.status = "ok"
  /\ last.scan = "desc"
  /\ Len(last.rows) = 2
  /\ last.rows[1].id > last.rows[2].id
  /\ ~ScoreGreater(CandidateScore(1), CandidateScore(2))
  /\ ~ScoreGreater(CandidateScore(2), CandidateScore(1))

(***************************************************************************)
(* C9.  An embedding never outlives its memory: every row of               *)
(* memory_embeddings names an existing memories row, also after a          *)
(* memories row was deleted through a handle of _get_connection.           *)
(***************************************************************************)
C9_NoOrphanEmbedding ==
  \A j \in 1..Len(embeddings) : embeddings[j].memory_id \in MemoryIds

(***************************************************************************)
(* C10.  Every invocation that opens a persistence handle closes it        *)
(* before it returns or raises, on every path.                             *)
(***************************************************************************)
C10_HandleReleased == last.closed = last.opened

=============================================================================
